---- MODULE Spec2Model ----
(***************************************************************************)
(* A model of the AI agent's request-dispatch boundary: AIAgent.process,   *)
(* the conversation memory with its persisted file memory.json, the /clear *)
(* command, the tools of the registry, the dispatch cycle, and the         *)
(* Telegram bot in front of the agent with its per-user pending states     *)
(* and its message splitter.                                               *)
(***************************************************************************)
EXTENDS Naturals, Sequences, FiniteSets, TLC

VARIABLES
    agent,      \* "down" (no AIAgent object) or "up" (constructed, serving)
    memory,     \* self.memory.chat_memory.messages: sequence of messages
    file,       \* the persisted memory file memory.json
    last,       \* what the last operation was and how it ended
    term,       \* the last execute_terminal call and how it ended
    tool,       \* a call of a tool of the registry and how it ended
    norm,       \* a raw argument and the input a tool made of it
    wf,         \* a write_file call, the file it wrote and what it returned
    loop,       \* the dispatch cycle inside agent_executor.invoke
    threads,    \* the handler threads of the bot, each inside process()
    user_states, \* bot.utils.user_states.user_states: the pending state of each user
    chat,       \* the message the bot is handling and what it did with it
    split       \* a split_message call: its arguments, its position, its parts

vars == <<agent, memory, file, last, term, tool, norm, wf, loop, threads, user_states, chat, split>>

\* The variables of the agent, and those of the tools and handlers.
agentVars == <<agent, memory, file, last>>
botVars == <<user_states, chat, split>>
toolVars == <<term, tool, norm, wf, loop, threads, botVars>>

(***************************************************************************)
(* Bounds of the model.                                                    *)
(***************************************************************************)
MaxMessages == 4      \* process() is not called on a longer memory
MaxFileEntries == 2   \* entries of a memory file found at the first start
MaxCmdLen == 3        \* length of the generated shell commands

(***************************************************************************)
(* Messages and their persisted form.                                      *)
(***************************************************************************)
Utterances == {"u1", "u2"}
Answers == {"a1"}

HumanMessage(c) == [cls |-> "HumanMessage", content |-> c]
AIMessage(c) == [cls |-> "AIMessage", content |-> c]

\* One element of the "messages" list of the file: a JSON object that has
\* or lacks the keys 'type' and 'content'.
Entry(ht, t, hc, c) == [hasType |-> ht, type |-> t, hasContent |-> hc, content |-> c]

\* The parsed content of the file. top: the JSON value is an object or not;
\* msgs: the key 'messages' is absent, a list, or a number.
Doc(top, msgs, entries, summary) ==
    [top |-> top, msgs |-> msgs, messages |-> entries, summary |-> summary]

EmptyDoc == Doc("object", "list", <<>>, "")

\* memory.json: missing; present and unreadable; present with a complete
\* JSON text (doc); present with a text cut short, which is no JSON text
\* (complete = FALSE; doc is not used).
File(exists, readable, complete, doc) ==
    [exists |-> exists, readable |-> readable, complete |-> complete, doc |-> doc]

MissingFile == File(FALSE, TRUE, TRUE, EmptyDoc)

(***************************************************************************)
(* AIAgent._generate_summary.  llm is the outcome of the summary model's   *)
(* call: "ok" or "error".                                                  *)
(***************************************************************************)
EmptySummary == "history is empty"
FallbackSummary == "could not generate a summary"
LlmSummary == "llm summary"

\* messages[-10:]
RecentCount == 10
Recent(mem) == SubSeq(mem, IF Len(mem) > RecentCount THEN Len(mem) - RecentCount + 1 ELSE 1,
                      Len(mem))

\* The method without the test of line 227.
GenerateSummaryRun_NoEmptyCheck(mem, llm) ==
    [invoked |-> TRUE, summary |-> IF llm = "ok" THEN LlmSummary ELSE FallbackSummary]

\* One run of the method: the string it returns and whether it got as far
\* as the summary model (lines 237-243).
GenerateSummaryRun(mem, llm) ==
    IF Len(Recent(mem)) = 0 THEN [invoked |-> FALSE, summary |-> EmptySummary]
    ELSE [invoked |-> TRUE, summary |-> IF llm = "ok" THEN LlmSummary ELSE FallbackSummary]

GenerateSummary(mem, llm) == GenerateSummaryRun(mem, llm).summary

(***************************************************************************)
(* AIAgent._save_memory.                                                   *)
(***************************************************************************)

\* A type name that _load_memory does not know.
MsgType_Assistant(m) == IF m.cls = "HumanMessage" THEN "human" ELSE "assistant"

MsgType(m) == IF m.cls = "HumanMessage" THEN "human" ELSE "ai"

\* The list built by the loop of lines 196-203.
DumpMessages(mem) ==
    [i \in 1..Len(mem) |-> Entry(TRUE, MsgType(mem[i]), TRUE, mem[i].content)]

MemoryData(mem, llm) ==
    Doc("object", "list", DumpMessages(mem), GenerateSummary(mem, llm))

\* with open(self.memory_file, 'w') ...: json.dump(...), under the outcome io
\* of the file system:
\*   "ok"          the text is written in full;
\*   "open_error"  open() raises (no permission, no directory): file untouched;
\*   "write_error" open() has truncated the file and a write raises (disk
\*                 full): the file holds a prefix of the new text;
\*   "crash"       the process dies between open() and the end of the dump.
IOOutcomes == {"ok", "open_error", "write_error", "crash"}

WriteFile(f, doc, io) ==
    CASE io = "ok" -> File(TRUE, TRUE, TRUE, doc)
      [] io = "open_error" -> f
      [] OTHER -> File(TRUE, TRUE, FALSE, EmptyDoc)

\* The exception that reaches the except clause of line 219, "" if none.
SaveRaises(io) ==
    CASE io = "open_error" -> "OSError"
      [] io = "write_error" -> "OSError"
      [] OTHER -> ""

\* _save_memory without its except clause.
SaveMemoryPropagates_All(exc) == exc

\* What the except clause of line 219 lets through to the caller of
\* _save_memory when exc was raised in its try block: nothing.
SaveMemoryPropagates(exc) == ""

\* _save_memory on the memory mem: the file afterwards, the exception raised
\* inside the try block, and the exception its caller sees.
SaveMemory(f, mem, io, llm) ==
    [file |-> WriteFile(f, MemoryData(mem, llm), io),
     exc |-> SaveRaises(io),
     propagated |-> SaveMemoryPropagates(SaveRaises(io))]

(***************************************************************************)
(* AIAgent._load_memory.                                                   *)
(***************************************************************************)
\* The loop of lines 177-183 from entry i on, the messages added so far
\* being mem.  msg['type'] and msg['content'] raise KeyError on an entry
\* that lacks the key; an entry of another type is skipped, its content
\* never read.  The result is the memory when the loop ends or raises, and
\* the exception ("" if none).
RECURSIVE LoadEntries(_, _, _)
LoadEntries(entries, i, mem) ==
    IF i > Len(entries) THEN [mem |-> mem, exc |-> ""]
    ELSE LET e == entries[i] IN
         IF ~e.hasType THEN [mem |-> mem, exc |-> "KeyError"]
         ELSE IF e.type = "human" THEN
                  IF ~e.hasContent THEN [mem |-> mem, exc |-> "KeyError"]
                  ELSE LoadEntries(entries, i + 1, Append(mem, HumanMessage(e.content)))
         ELSE IF e.type = "ai" THEN
                  IF ~e.hasContent THEN [mem |-> mem, exc |-> "KeyError"]
                  ELSE LoadEntries(entries, i + 1, Append(mem, AIMessage(e.content)))
         ELSE LoadEntries(entries, i + 1, mem)

\* The body of the try block of lines 167-186 on an existing file.
LoadTry(f, mem) ==
    IF ~f.readable THEN [mem |-> mem, exc |-> "OSError"]
    ELSE IF ~f.complete THEN [mem |-> mem, exc |-> "JSONDecodeError"]
    ELSE IF f.doc.top # "object" THEN [mem |-> mem, exc |-> "AttributeError"]
    ELSE IF f.doc.msgs = "number" THEN [mem |-> mem, exc |-> "TypeError"]
    ELSE IF f.doc.msgs = "absent" THEN [mem |-> mem, exc |-> ""]
    ELSE LoadEntries(f.doc.messages, 1, mem)

\* An except clause for json.JSONDecodeError alone.
LoadMemoryPropagates_JsonOnly(exc) == IF exc = "JSONDecodeError" THEN "" ELSE exc

\* What the except clause of line 187 lets through: nothing.
LoadMemoryPropagates(exc) == ""

\* _load_memory on the memory mem: the memory afterwards, the exception
\* raised inside the try block, and the exception its caller sees.
LoadMemory(f, mem) ==
    IF ~f.exists THEN [mem |-> mem, exc |-> "", propagated |-> ""]
    ELSE LET r == LoadTry(f, mem) IN
         [mem |-> r.mem, exc |-> r.exc, propagated |-> LoadMemoryPropagates(r.exc)]

(***************************************************************************)
(* The error classification of AIAgent.process (lines 277-317).            *)
(*                                                                         *)
(* An error text str(e) is a sequence of tokens; "x in error_str" is read  *)
(* as: x is one of the tokens.  LowerTok is str.lower() on a token.        *)
(***************************************************************************)
LowerTok(t) ==
    CASE t = "UNSUPPORTED_COUNTRY_REGION_TERRITORY" -> "unsupported_country_region_territory"
      [] t = "Invalid_API_Key" -> "invalid_api_key"
      [] t = "Rate_Limit" -> "rate_limit"
      [] OTHER -> t

Lower(e) == [i \in 1..Len(e) |-> LowerTok(e[i])]

Contains(e, x) == \E i \in 1..Len(e) : e[i] = x

RegionMsg == <<"OpenAI API is not available in your region">>
AuthMsg == <<"invalid OpenAI API key">>
RateLimitMsg == <<"OpenAI API rate limit exceeded">>
UnknownMsg(e) == <<"error while processing the request:">> \o e

\* The chain without its rate-limit branch.
ErrorMessage_NoRateLimit(e) ==
    IF Contains(e, "403") \/ Contains(Lower(e), "unsupported_country_region_territory")
    THEN RegionMsg
    ELSE IF Contains(e, "401") \/ Contains(Lower(e), "invalid_api_key")
    THEN AuthMsg
    ELSE UnknownMsg(e)

\* The if chain of lines 282-317 on error_str = e.
ErrorMessage(e) ==
    IF Contains(e, "403") \/ Contains(Lower(e), "unsupported_country_region_territory")
    THEN RegionMsg
    ELSE IF Contains(e, "401") \/ Contains(Lower(e), "invalid_api_key")
    THEN AuthMsg
    ELSE IF Contains(e, "429") \/ Contains(Lower(e), "rate_limit")
    THEN RateLimitMsg
    ELSE UnknownMsg(e)

\* A handler that gives up on the errors it does not recognize.
ProcessExcept_Reraise(e) ==
    IF ErrorMessage(e) = UnknownMsg(e)
    THEN [returned |-> FALSE, ret |-> <<>>, raised |-> "Exception"]
    ELSE [returned |-> TRUE, ret |-> ErrorMessage(e), raised |-> ""]

\* The except clause of line 277 on an exception with text e raised in the
\* try block of process: every Exception ends in a returned message.
ProcessExcept(e) == [returned |-> TRUE, ret |-> ErrorMessage(e), raised |-> ""]

\* The error texts the completion capability fails with.
ErrorTexts ==
    {<<"403">>, <<"Error", "code:", "403">>, <<"unsupported_country_region_territory">>,
     <<"UNSUPPORTED_COUNTRY_REGION_TERRITORY">>,
     <<"401">>, <<"invalid_api_key">>, <<"Invalid_API_Key">>,
     <<"429">>, <<"rate_limit">>, <<"Rate_Limit">>,
     <<"timeout">>, <<>>,
     <<"403", "401">>, <<"rate_limit", "401">>, <<"429", "403">>}

\* What agent_executor.invoke does: a final answer, or an exception.
Completions ==
    [kind : {"answer"}, answer : Answers, err : {<<>>}]
    \cup [kind : {"error"}, answer : {""}, err : ErrorTexts]

(***************************************************************************)
(* The state and the operations.                                           *)
(***************************************************************************)
NoCall ==
    [op |-> "none", input |-> "", kind |-> "", answer |-> "", err |-> <<>>,
     io |-> "", ret |-> <<>>, returned |-> FALSE, raised |-> "", exc |-> "",
     before |-> 0, llm |-> "", count |-> 0, summary |-> "", invoked |-> FALSE]

NoTerm == [called |-> FALSE]
NoTool == [called |-> FALSE]
NoLoop == [pc |-> "Idle", iterations |-> 0, tool |-> "", server |-> "", ctor |-> <<>>,
           output |-> ""]
NoThreads == <<>>

\* The users that write to the bot.
Users == {"A", "B"}

\* user_states = {}: no user is asked for anything; the bot handles no
\* message.
NoStates == [u \in Users |-> ""]
NoChat == [pc |-> "idle", handler |-> "", user |-> "", text |-> <<>>, state |-> "",
           query |-> <<>>]
NoSplit == [pc |-> "idle", text |-> <<>>, max_length |-> 1, current_pos |-> 0,
            parts |-> <<>>, cuts |-> <<>>]
BotIdle == user_states = NoStates /\ chat = NoChat /\ split = NoSplit

\* No tool is being called, no request is being handled.
ToolsIdle ==
    /\ term = NoTerm /\ tool = NoTool /\ norm = NoTool /\ wf = NoTool
    /\ loop = NoLoop /\ BotIdle /\ threads = NoThreads

\* No agent has been constructed and there is no memory file.
AgentIdle ==
    /\ agent = "down" /\ memory = <<>> /\ file = MissingFile /\ last = NoCall

SeqsUpTo(S, n) == UNION {[1..k -> S] : k \in 0..n}

\* Entries of a memory file found at the first start: written by an earlier
\* run, or edited or damaged since.
InitEntries ==
    {Entry(TRUE, "human", TRUE, "u1"), Entry(TRUE, "ai", TRUE, "a1"),
     Entry(FALSE, "", TRUE, "u1"), Entry(TRUE, "human", FALSE, ""),
     Entry(TRUE, "ai", FALSE, ""), Entry(TRUE, "system", FALSE, "")}

InitFiles ==
    {MissingFile, File(TRUE, FALSE, TRUE, EmptyDoc), File(TRUE, TRUE, FALSE, EmptyDoc),
     File(TRUE, TRUE, TRUE, Doc("list", "absent", <<>>, "")),
     File(TRUE, TRUE, TRUE, Doc("object", "absent", <<>>, "")),
     File(TRUE, TRUE, TRUE, Doc("object", "number", <<>>, ""))}
    \cup {File(TRUE, TRUE, TRUE, Doc("object", "list", es, LlmSummary)) :
            es \in SeqsUpTo(InitEntries, MaxFileEntries)}

\* The files the agent is first started on in Spec: none, one written by an
\* earlier run that holds an odd number of messages, and damaged ones.
StartFiles ==
    {MissingFile,
     File(TRUE, TRUE, TRUE, Doc("object", "list", <<Entry(TRUE, "human", TRUE, "u1")>>, LlmSummary)),
     File(TRUE, TRUE, TRUE,
          Doc("object", "list",
              <<Entry(TRUE, "human", TRUE, "u1"), Entry(TRUE, "ai", FALSE, "")>>, LlmSummary)),
     File(TRUE, FALSE, TRUE, EmptyDoc)}

Init ==
    /\ agent = "down"
    /\ memory = <<>>
    /\ file \in StartFiles
    /\ last = NoCall
    /\ ToolsIdle

\* AIAgent.__init__: a new ConversationBufferMemory, then _load_memory.
Construct ==
    /\ agent = "down"
    /\ LET r == LoadMemory(file, <<>>) IN
       /\ agent' = IF r.propagated = "" THEN "up" ELSE "down"
       /\ memory' = IF r.propagated = "" THEN r.mem ELSE <<>>
       /\ last' = [NoCall EXCEPT !.op = "construct", !.exc = r.exc,
                                 !.raised = r.propagated,
                                 !.returned = (r.propagated = "")]
    /\ UNCHANGED <<file, toolVars>>

\* The answer stored before the question.
SaveContext_Swapped(mem, u, a) == mem \o <<AIMessage(a), HumanMessage(u)>>

\* The AgentExecutor is built with memory=self.memory: an invoke that ends
\* in a final answer appends the input and the output to the memory.
SaveContext(mem, u, a) == mem \o <<HumanMessage(u), AIMessage(a)>>

\* handle_clear without memory.clear().
MemoryClear_Skipped(mem) == mem

\* memory.clear() of handle_clear.
MemoryClear(mem) == <<>>

\* AIAgent.process(u) when agent_executor.invoke ends as c, the summary
\* model's call as llm and the file system's as io.
ProcessCall(u, c, io, llm) ==
    /\ agent = "up"
    /\ IF c.kind = "answer"
       THEN /\ Len(memory) + 2 <= MaxMessages
            /\ LET mem1 == SaveContext(memory, u, c.answer)
                   s == SaveMemory(file, mem1, io, llm)
                   g == GenerateSummaryRun(mem1, llm)
                   out == IF s.propagated = ""
                          THEN [returned |-> TRUE, ret |-> <<c.answer>>, raised |-> ""]
                          ELSE ProcessExcept(<<s.propagated>>)
               IN /\ file' = s.file
                  /\ agent' = IF io = "crash" THEN "down" ELSE "up"
                  /\ memory' = IF io = "crash" THEN <<>> ELSE mem1
                  /\ last' = [NoCall EXCEPT !.op = "process", !.input = u,
                                            !.kind = "answer", !.answer = c.answer,
                                            !.io = io, !.exc = s.exc,
                                            !.before = Len(memory),
                                            !.llm = llm, !.count = Len(mem1),
                                            !.summary = g.summary, !.invoked = g.invoked,
                                            !.returned = (io # "crash" /\ out.returned),
                                            !.ret = IF io = "crash" THEN <<>> ELSE out.ret,
                                            !.raised = IF io = "crash" THEN "" ELSE out.raised]
       ELSE /\ io = "ok" /\ llm = "ok"
            /\ LET out == ProcessExcept(c.err) IN
               last' = [NoCall EXCEPT !.op = "process", !.input = u, !.kind = "error",
                                      !.err = c.err, !.before = Len(memory),
                                      !.returned = out.returned, !.ret = out.ret,
                                      !.raised = out.raised]
            /\ UNCHANGED <<agent, memory, file>>

\* A process(u) call that nothing else accompanies.
Process(u, c, io, llm) == ProcessCall(u, c, io, llm) /\ UNCHANGED toolVars

\* handle_clear: memory.clear(), then _save_memory(), inside try/except.
ClearCall(io, llm) ==
    /\ agent = "up"
    /\ LET mem1 == MemoryClear(memory)
           s == SaveMemory(file, mem1, io, llm)
           g == GenerateSummaryRun(mem1, llm)
       IN /\ file' = s.file
          /\ agent' = IF io = "crash" THEN "down" ELSE "up"
          /\ memory' = IF io = "crash" THEN <<>> ELSE mem1
          /\ last' = [NoCall EXCEPT !.op = "clear", !.io = io, !.exc = s.exc,
                                    !.before = Len(memory),
                                    !.llm = llm, !.count = Len(mem1),
                                    !.summary = g.summary, !.invoked = g.invoked,
                                    !.returned = (io # "crash"),
                                    !.ret = IF io = "crash" THEN <<>>
                                            ELSE IF s.propagated = "" THEN <<"CLEAR_SUCCESS">>
                                            ELSE <<"CLEAR_ERROR", s.propagated>>]

\* A /clear that nothing else accompanies.
Clear(io, llm) == ClearCall(io, llm) /\ UNCHANGED toolVars

\* The bot is stopped (KeyboardInterrupt in main): the process and its
\* in-memory history are gone, the file stays.
Stop ==
    /\ agent = "up"
    /\ agent' = "down"
    /\ memory' = <<>>
    /\ last' = [NoCall EXCEPT !.op = "stop", !.before = Len(memory)]
    /\ UNCHANGED <<file, toolVars>>

Next ==
    \/ Construct
    \/ \E u \in Utterances, c \in Completions, io \in IOOutcomes, llm \in {"ok", "error"} :
          Process(u, c, io, llm)
    \/ \E io \in IOOutcomes, llm \in {"ok", "error"} : Clear(io, llm)
    \/ Stop

Spec == Init /\ [][Next]_vars

(***************************************************************************)
(* Starting the agent on every memory file of up to MaxFileEntries         *)
(* entries: _load_memory as a function of the file.                        *)
(***************************************************************************)
InitLoad ==
    /\ agent = "down"
    /\ memory = <<>>
    /\ file \in InitFiles
    /\ last = NoCall
    /\ ToolsIdle

NextLoad == Construct \/ Stop

SpecLoad == InitLoad /\ [][NextLoad]_vars

(***************************************************************************)
(* The tools' arguments.  A string is a sequence of one-character strings. *)
(* A raw argument is a string, a dict (call metadata) or a list of strings *)
(* and dicts.                                                              *)
(***************************************************************************)
StrI(s) == [kind |-> "str", s |-> s]
DictI == [kind |-> "dict", s |-> <<>>]

StrV(s) == [kind |-> "str", s |-> s, items |-> <<>>]
DictV == [kind |-> "dict", s |-> <<>>, items |-> <<>>]
ListV(items) == [kind |-> "list", s |-> <<>>, items |-> items]

\* str(x) of a string or of a dict.
DictStr == <<"{", "}">>
Str(x) == IF x.kind = "dict" THEN DictStr ELSE x.s

\* ' '.join(str(v) for v in xs)
RECURSIVE JoinSpace(_)
JoinSpace(xs) ==
    IF Len(xs) = 0 THEN <<>>
    ELSE IF Len(xs) = 1 THEN Str(xs[1])
    ELSE Str(xs[1]) \o <<" ">> \o JoinSpace(Tail(xs))

IsReal(x) == x.kind # "dict"

\* The function without the filter of line 37.
NormalizeInput_Unfiltered(value) ==
    IF value.kind = "list"
    THEN IF Len(value.items) = 1 THEN Str(value.items[1])
         ELSE JoinSpace(value.items)
    ELSE Str(value)

\* _normalize_input(value)
NormalizeInput(value) ==
    IF value.kind = "list"
    THEN LET real_args == SelectSeq(value.items, IsReal) IN
         IF Len(real_args) = 0
         THEN IF Len(value.items) = 1 THEN Str(value.items[1])
              ELSE JoinSpace(value.items)
         ELSE IF Len(real_args) = 1 THEN Str(real_args[1])
         ELSE JoinSpace(real_args)
    ELSE Str(value)

\* The positional part of _extract_tool_args(*args, **kwargs).
ExtractToolArgs(args) == SelectSeq(args, IsReal)

\* real_args[0] if real_args else kwargs.get(key, args[0] if args else "");
\* kw is the keyword argument under the tool's key, has = FALSE if not given.
FirstArg(args, kw) ==
    LET real_args == ExtractToolArgs(args) IN
    IF Len(real_args) > 0 THEN real_args[1]
    ELSE IF kw.has THEN kw.value
    ELSE IF Len(args) > 0 THEN args[1]
    ELSE StrV(<<>>)

NoKw == [has |-> FALSE, value |-> StrV(<<>>)]
Kw(v) == [has |-> TRUE, value |-> v]

(***************************************************************************)
(* str.lower(), str.strip() and str.startswith().                          *)
(***************************************************************************)
UpperCase == <<"A", "B", "C", "D", "E", "F", "G", "H", "I", "J", "K", "L", "M",
               "N", "O", "P", "Q", "R", "S", "T", "U", "V", "W", "X", "Y", "Z">>
LowerCase == <<"a", "b", "c", "d", "e", "f", "g", "h", "i", "j", "k", "l", "m",
               "n", "o", "p", "q", "r", "s", "t", "u", "v", "w", "x", "y", "z">>

LowerChar(c) ==
    IF \E i \in 1..Len(UpperCase) : UpperCase[i] = c
    THEN LowerCase[CHOOSE i \in 1..Len(UpperCase) : UpperCase[i] = c]
    ELSE c

StrLower(s) == [i \in 1..Len(s) |-> LowerChar(s[i])]

Whitespace == {" ", "\t", "\n"}

RECURSIVE LStrip(_)
LStrip(s) ==
    IF Len(s) > 0 /\ s[1] \in Whitespace THEN LStrip(Tail(s)) ELSE s

RECURSIVE RStrip(_)
RStrip(s) ==
    IF Len(s) > 0 /\ s[Len(s)] \in Whitespace
    THEN RStrip(SubSeq(s, 1, Len(s) - 1)) ELSE s

StrStrip(s) == RStrip(LStrip(s))

StartsWith(s, p) == Len(p) <= Len(s) /\ SubSeq(s, 1, Len(p)) = p

(***************************************************************************)
(* execute_terminal.                                                       *)
(***************************************************************************)
dangerous_commands ==
    << <<"r", "m">>, <<"d", "e", "l">>, <<"f", "o", "r", "m", "a", "t">>,
       <<"m", "k", "f", "s">>, <<"d", "d">>,
       <<"s", "h", "u", "t", "d", "o", "w", "n">>, <<"r", "e", "b", "o", "o", "t">> >>

\* The check without lower().
CommandLower_CaseSensitive(command) == StrStrip(command)

\* command.lower().strip()
CommandLower(command) == StrStrip(StrLower(command))

\* A check of the first word of the command: the index of the denylisted
\* name that the command is, up to its first blank, 0 if there is none.
FirstDangerous_Token(command) ==
    LET c == CommandLower(command)
        n == IF \E i \in 1..Len(c) : c[i] = " "
             THEN (CHOOSE i \in 1..Len(c) : c[i] = " " /\ \A j \in 1..(i - 1) : c[j] # " ") - 1
             ELSE Len(c)
        hits == {i \in 1..Len(dangerous_commands) : SubSeq(c, 1, n) = dangerous_commands[i]}
    IN IF hits = {} THEN 0 ELSE CHOOSE i \in hits : TRUE

\* The loop of lines 402-405: the index of the first denylisted name the
\* command starts with, 0 if there is none.
FirstDangerous(command) ==
    LET hits == {i \in 1..Len(dangerous_commands) :
                   StartsWith(CommandLower(command), dangerous_commands[i])}
    IN IF hits = {} THEN 0 ELSE CHOOSE i \in hits : \A j \in hits : i <= j

\* The outcomes of subprocess.run(command, shell=True, timeout=30, ...).
\* The strings execute_terminal returns, as sequences of tokens.
RefusalText(name) == <<"Error:", "the command", name, "is forbidden for safety reasons.">>
CompletedText(returncode, output) == <<"Exit code:", returncode, "Output:">> \o output
TimeoutText == <<"Error:", "The command exceeded the time limit (30 seconds).">>
ErrorText(e) == <<"Command execution error:">> \o e

\* What a subprocess prints, in full or until it is killed: anything, also
\* the text of the tool's own timeout message.
Outputs == {<<"out">>, TimeoutText}

\* How subprocess.run(command, shell=True, capture_output=True, timeout=30)
\* ends: the command completes with an exit code and its output; it is
\* killed after 30 seconds, having printed output; or run raises exc.
RunOutcomes ==
    [kind : {"completed"}, returncode : {"0"}, output : Outputs, exc : {<<>>}]
    \cup [kind : {"timeout"}, returncode : {""}, output : Outputs, exc : {<<>>}]
    \cup [kind : {"error"}, returncode : {""}, output : {<<>>}, exc : {<<"boom">>, TimeoutText}]

\* TimeoutExpired handled by the clause for Exception: the generic string
\* with the text of the exception, which carries the output so far.
TimeoutReturn_Generic(run) == ErrorText(<<"timed out after 30 seconds">> \o run.output)

\* except subprocess.TimeoutExpired, lines 423-425.
TimeoutReturn(run) == TimeoutText

\* The try statement of lines 407-428 when subprocess.run ends as run.
RunText(run) ==
    CASE run.kind = "completed" -> CompletedText(run.returncode, run.output)
      [] run.kind = "timeout" -> TimeoutReturn(run)
      [] OTHER -> ErrorText(run.exc)

\* execute_terminal(*args, command=kw) when subprocess.run, if reached,
\* ends as run: the normalized command, the string returned and whether a
\* subprocess was started.
ExecuteTerminalResult(args, kw, run) ==
    LET command == NormalizeInput(FirstArg(args, kw))
        d == FirstDangerous(command)
    IN IF d # 0
       THEN [command |-> command, kind |-> "refused", name |-> dangerous_commands[d],
             spawned |-> FALSE, text |-> RefusalText(dangerous_commands[d])]
       ELSE [command |-> command,
             kind |-> CASE run.kind = "completed" -> "exit_code_and_output"
                        [] run.kind = "timeout" -> "timeout"
                        [] OTHER -> "execution_error",
             name |-> <<>>, spawned |-> TRUE,
             text |-> RunText(run)]

\* The call of the tool.
ExecuteTerminal ==
    /\ ~term.called
    /\ term' = [called |-> TRUE, args |-> term.args, kw |-> term.kw, run |-> term.run,
                result |-> ExecuteTerminalResult(term.args, term.kw, term.run)]
    /\ UNCHANGED <<agentVars, tool, norm, wf, loop, threads, botVars>>

\* The shell commands of the model: every string of up to MaxCmdLen
\* characters of CmdAlphabet, and some longer ones.
CmdAlphabet == {"r", "m", "R", "d", " "}

Chars(n, a, b, c, d, e, f, g, h) == SubSeq(<<a, b, c, d, e, f, g, h>>, 1, n)

Commands ==
    SeqsUpTo(CmdAlphabet, MaxCmdLen)
    \cup {Chars(8, "r", "m", " ", "-", "r", "f", " ", "/"),
          Chars(5, "D", "E", "L", " ", "x", "", "", ""),
          Chars(8, "f", "o", "r", "m", "a", "t", " ", "c"),
          Chars(6, " ", "m", "k", "f", "s", " ", "", ""),
          Chars(8, "s", "h", "u", "t", "d", "o", "w", "n"),
          Chars(7, "\t", "R", "e", "b", "o", "o", "t", ""),
          Chars(7, "r", "m", "d", "i", "r", " ", "x", ""),
          Chars(8, "d", "d", "r", "e", "s", "c", "u", "e"),
          Chars(7, "s", "u", "d", "o", " ", "r", "m", ""),
          Chars(7, "l", "s", ";", "r", "m", " ", "x", ""),
          Chars(7, "/", "b", "i", "n", "/", "r", "m", ""),
          Chars(7, "e", "c", "h", "o", " ", "h", "i", "")}

\* How a command reaches the tool: alone, with call metadata before or
\* after it, as a list, or as the keyword argument.
Calls(cmd) ==
    {[args |-> <<StrV(cmd)>>, kw |-> NoKw],
     [args |-> <<StrV(cmd), DictV>>, kw |-> NoKw],
     [args |-> <<DictV, StrV(cmd)>>, kw |-> NoKw],
     [args |-> <<ListV(<<StrI(cmd), DictI>>)>>, kw |-> NoKw],
     [args |-> <<ListV(<<StrI(cmd), StrI(<<"x">>)>>)>>, kw |-> NoKw],
     [args |-> <<DictV>>, kw |-> Kw(StrV(cmd))]}

\* A call of the tool is about to be made; run tells how its subprocess
\* will end.
InitTerm ==
    /\ AgentIdle
    /\ tool = NoTool /\ norm = NoTool /\ wf = NoTool /\ loop = NoLoop /\ BotIdle /\ threads = NoThreads
    /\ \E cmd \in Commands, run \in RunOutcomes :
           \E call \in Calls(cmd) :
               term = [called |-> FALSE, args |-> call.args, kw |-> call.kw, run |-> run]

NextTerm == ExecuteTerminal

SpecTerm == InitTerm /\ [][NextTerm]_vars

(***************************************************************************)
(* The claims.                                                             *)
(***************************************************************************)
ProcessEnded == last.op = "process" /\ last.io # "crash"

\* C1: whatever the utterance and whatever agent_executor.invoke does (a
\* final answer or an exception of any text), a process() call that ends
\* has returned a message and has let no exception through to its caller.
C1_ProcessAlwaysReturns ==
    ProcessEnded => last.returned /\ last.raised = "" /\ Len(last.ret) > 0

C1_Witness ==
    /\ ProcessEnded /\ last.kind = "error" /\ last.err = <<"timeout">>
    /\ last.returned /\ last.ret = UnknownMsg(<<"timeout">>)

\* The class the claim gives an error text, markers read without regard to
\* case and the classes taken in the order region, auth, rate limit.
C2_Has(e, code, name) == \E i \in 1..Len(e) : e[i] = code \/ LowerTok(e[i]) = name

C2_Expected(e) ==
    IF C2_Has(e, "403", "unsupported_country_region_territory") THEN RegionMsg
    ELSE IF C2_Has(e, "401", "invalid_api_key") THEN AuthMsg
    ELSE IF C2_Has(e, "429", "rate_limit") THEN RateLimitMsg
    ELSE UnknownMsg(e)

\* C2: when the completion call fails, process() returns the message of the
\* class of the error text (region for 403, auth for 401, rate limit for
\* 429, unknown otherwise), and the four messages are pairwise distinct.
C2_ErrorsClassified ==
    ProcessEnded /\ last.kind = "error" =>
        /\ last.ret = C2_Expected(last.err)
        /\ Cardinality({RegionMsg, AuthMsg, RateLimitMsg, UnknownMsg(last.err)}) = 4

C2_Witness ==
    /\ ProcessEnded /\ last.kind = "error" /\ last.err = <<"Rate_Limit">>
    /\ last.ret = RateLimitMsg

\* A step of process() that ends with the final answer returned.
AnsweredStep ==
    last'.op = "process" /\ last'.kind = "answer" /\ last'.returned

AppendsPair ==
    memory' = memory \o <<HumanMessage(last'.input), AIMessage(last'.answer)>>

FileHolds(f, mem) ==
    /\ f.exists /\ f.readable /\ f.complete
    /\ f.doc.top = "object" /\ f.doc.msgs = "list"
    /\ Len(f.doc.messages) = Len(mem)
    /\ \A i \in 1..Len(mem) :
          /\ f.doc.messages[i].hasType /\ f.doc.messages[i].hasContent
          /\ f.doc.messages[i].type = (IF mem[i].cls = "HumanMessage" THEN "human" ELSE "ai")
          /\ f.doc.messages[i].content = mem[i].content

\* C3 as stated: every process() call that ends with a final answer appends
\* the Human message and then the Assistant message, and the file holds
\* the new memory when the answer is returned.
C3_AlwaysPersisted ==
    [][AnsweredStep => AppendsPair /\ FileHolds(file', memory')]_vars

\* C3 as amended: every process() call that ends with a final answer
\* appends the Human message and then the Assistant message; the file
\* holds the new memory when the answer is returned, unless the write failed.
C3_PersistedUnlessWriteFails ==
    [][AnsweredStep => AppendsPair /\ (last'.exc = "" => FileHolds(file', memory'))]_vars

C3_Witness ==
    /\ last.op = "process" /\ last.kind = "answer" /\ last.returned
    /\ last.before = 0 /\ last.exc = ""
    /\ Len(memory) = 2 /\ FileHolds(file, memory)

\* C4: a memory of any length saved without a write error and loaded into
\* a fresh empty memory gives the same sequence of (role, content) pairs:
\* for the memory of every state, and for the file a save has just written.
C4_RoundTrip ==
    agent = "up" =>
        /\ \A llm \in {"ok", "error"} :
              LoadMemory(SaveMemory(file, memory, "ok", llm).file, <<>>).mem = memory
        /\ (last.op \in {"process", "clear"} /\ last.io = "ok" /\ last.kind # "error"
              => LoadMemory(file, <<>>).mem = memory)

C4_Witness ==
    /\ agent = "up" /\ last.op = "process" /\ last.kind = "answer" /\ last.io = "ok"
    /\ Len(memory) = 3 /\ LoadMemory(file, <<>>).mem = memory

\* C5: _load_memory lets no exception through: the agent is constructed
\* whatever the file is, and on a missing file the memory is empty.
C5_LoadNeverRaises ==
    last.op = "construct" =>
        /\ last.raised = "" /\ agent = "up"
        /\ (~file.exists => memory = <<>>)

C5_Witness ==
    last.op = "construct" /\ last.exc = "KeyError" /\ agent = "up" /\ last.raised = ""

\* C6: after the load of a file that is present and malformed (the load
\* raised inside its try block), the memory is empty.
C6_MalformedLoadsEmpty ==
    last.op = "construct" /\ file.exists /\ last.exc # "" => memory = <<>>

\* C7: when the completion capability produced a final answer, a process()
\* call that ends returns exactly that answer, whether the save succeeded
\* or failed.
C7_AnswerDespiteSaveFailure ==
    ProcessEnded /\ last.kind = "answer" =>
        last.returned /\ last.raised = "" /\ last.ret = <<last.answer>>

C7_Witness ==
    /\ ProcessEnded /\ last.kind = "answer" /\ last.exc = "OSError"
    /\ last.returned /\ last.ret = <<last.answer>>

\* C8: every step leaves the memory file either as it was or holding a
\* complete record, never a truncated one.
C8_AtomicPersist == [][file' = file \/ file'.complete]_vars

\* C9: after a /clear whose save had no error, the memory is empty, the
\* file holds an empty messages list, and a load of the file gives zero
\* messages.
C9_ClearEmpties ==
    last.op = "clear" /\ last.io = "ok" =>
        /\ memory = <<>>
        /\ FileHolds(file, <<>>)
        /\ LoadMemory(file, <<>>).mem = <<>>

C9_Witness ==
    /\ last.op = "clear" /\ last.io = "ok" /\ last.before = 4
    /\ memory = <<>> /\ Len(file.doc.messages) = 0

\* The command of the call, lowercased and trimmed, starts with a
\* denylisted name.
Denylisted(command) ==
    \E i \in 1..Len(dangerous_commands) :
        StartsWith(StrStrip(StrLower(command)), dangerous_commands[i])

\* C10: for every command whose lowercased, trimmed form starts with a
\* denylisted name, execute_terminal returns the refusal and starts no
\* subprocess.
C10_DenylistRefused ==
    term.called /\ Denylisted(term.result.command) =>
        term.result.kind = "refused" /\ ~term.result.spawned

C10_Witness ==
    /\ term.called
    /\ term.result.command = Chars(7, "\t", "R", "e", "b", "o", "o", "t", "")
    /\ term.result.kind = "refused" /\ ~term.result.spawned

(***************************************************************************)
(* The tools of the registry (src/agent/tools.py).                         *)
(*                                                                         *)
(* str.split(), sep.join() and str.upper() on strings.                      *)
(***************************************************************************)
HasChar(s, c) == \E i \in 1..Len(s) : s[i] = c

\* The place of the first c in s.
FirstChar(s, c) == CHOOSE i \in 1..Len(s) : s[i] = c /\ \A j \in 1..(i - 1) : s[j] # c

\* s.split(sep)
RECURSIVE Split(_, _)
Split(s, sep) ==
    IF ~HasChar(s, sep) THEN <<s>>
    ELSE LET k == FirstChar(s, sep)
         IN <<SubSeq(s, 1, k - 1)>> \o Split(SubSeq(s, k + 1, Len(s)), sep)

\* s.split(sep, 1)
Split1(s, sep) ==
    IF ~HasChar(s, sep) THEN <<s>>
    ELSE LET k == FirstChar(s, sep)
         IN <<SubSeq(s, 1, k - 1), SubSeq(s, k + 1, Len(s))>>

\* sep.join(str(v) for v in xs)
RECURSIVE JoinSep(_, _)
JoinSep(xs, sep) ==
    IF Len(xs) = 0 THEN <<>>
    ELSE IF Len(xs) = 1 THEN Str(xs[1])
    ELSE Str(xs[1]) \o <<sep>> \o JoinSep(Tail(xs), sep)

UpperChar(c) ==
    IF \E i \in 1..Len(LowerCase) : LowerCase[i] = c
    THEN UpperCase[CHOOSE i \in 1..Len(LowerCase) : LowerCase[i] = c]
    ELSE c

StrUpper(s) == [i \in 1..Len(s) |-> UpperChar(s[i])]

\* s.replace(old, new) for a non-empty old: the occurrences of old from
\* left to right, none overlapping another.
RECURSIVE Replace(_, _, _)
Replace(s, old, new) ==
    IF Len(s) < Len(old) THEN s
    ELSE IF SubSeq(s, 1, Len(old)) = old
    THEN new \o Replace(SubSeq(s, Len(old) + 1, Len(s)), old, new)
    ELSE <<s[1]>> \o Replace(Tail(s), old, new)

(***************************************************************************)
(* How a call ends: it returns a string of some kind, it raises exc (the   *)
(* tokens of str(exc)), or it never comes back.                            *)
(***************************************************************************)
Returned(kind) == [status |-> "returned", kind |-> kind, exc |-> <<>>]
Raised(exc) == [status |-> "raised", kind |-> "", exc |-> exc]
Hung == [status |-> "hung", kind |-> "", exc |-> <<>>]

\* timeout=None: the call waits for the server without limit.
NoTimeout == 0

\* What the server does with a request.
ServerOutcomes == {"ok", "empty", "http_error", "silent"}

\* requests.get/post/put/delete(url, timeout=timeout) followed by
\* response.raise_for_status(): a silent server is waited for until the
\* timeout, forever if there is none.
RequestsCall(server, timeout) ==
    IF server = "silent"
    THEN IF timeout = NoTimeout THEN Hung ELSE Raised(<<"Read", "timed out">>)
    ELSE IF server = "http_error" THEN Raised(<<"500", "Server Error">>)
    ELSE Returned(server)

\* except Exception as e: return f"<message of the tool>: {e}"
Caught(c, kind) == IF c.status = "raised" THEN Returned(kind) ELSE c

\* parts[i].strip() if len(parts) > i else a falsy value (i counted from 0).
Part(parts, i) == IF Len(parts) > i THEN StrStrip(parts[i + 1]) ELSE <<>>

\* The one text of the model that json.loads accepts; str() of a call
\* metadata dict (DictStr) is a Python repr and is not JSON.
JsonText == <<"j">>

HttpMethods == {<<"G", "E", "T">>, <<"P", "O", "S", "T">>, <<"P", "U", "T">>,
                <<"D", "E", "L", "E", "T", "E">>}

\* The request string http_request makes of its argument.
HttpRequestStr(v) == IF v.kind = "list" THEN JoinSep(v.items, "|") ELSE Str(v)

\* http_request(*args, request_str=kw) against a server that behaves as
\* server: the request string and how the call ends.
HttpRequestResult(args, kw, server) ==
    LET request_str == HttpRequestStr(FirstArg(args, kw))
        parts == Split(request_str, "|")
        method == StrUpper(Part(parts, 0))
        url == Part(parts, 1)
        headers_str == Part(parts, 2)
        data_str == Part(parts, 3)
        try == IF url = <<>> THEN Returned("url_required")
               ELSE IF headers_str # <<>> /\ headers_str # JsonText
               THEN Returned("bad_headers_json")
               ELSE IF data_str # <<>> /\ data_str # JsonText
               THEN Returned("bad_data_json")
               ELSE IF method \in HttpMethods
               THEN LET c == RequestsCall(server, NoTimeout) IN
                    IF c.status = "returned" THEN Returned("status_and_response")
                    ELSE c
               ELSE Returned("unsupported_method")
    IN [input |-> request_str, result |-> Caught(try, "http_request_error")]

\* The coin and currency string get_crypto_price makes of a list.
CryptoStr(v) ==
    IF v.kind = "list"
    THEN IF Len(v.items) = 2
         THEN Str(v.items[1]) \o <<",">> \o Str(v.items[2])
         ELSE Str(v.items[1])
    ELSE Str(v)

\* get_crypto_price(*args, coin_and_currency=kw); an empty list is indexed
\* before the try block is entered.  A server that answers "empty" sends
\* data without the coin.
GetCryptoPriceResult(args, kw, server) ==
    LET v == FirstArg(args, kw) IN
    IF v.kind = "list" /\ Len(v.items) = 0
    THEN [input |-> <<>>, result |-> Raised(<<"IndexError">>)]
    ELSE LET coin_and_currency == CryptoStr(v)
             c == RequestsCall(server, NoTimeout)
             try == IF c.status # "returned" THEN c
                    ELSE IF c.kind = "empty" THEN Returned("coin_not_found")
                    ELSE Returned("price")
         IN [input |-> coin_and_currency,
             result |-> Caught(try, "crypto_error")]

RequestTimeout == 10

\* Lines 634-641 of get_currency_rate: the base and the target currency
\* made of the input.
ParseCurrencyPair(currency_pair) ==
    LET parts == Split(Replace(Replace(Replace(currency_pair, <<"t", "o">>, <<"/">>),
                                       <<"T", "O">>, <<"/">>),
                               <<" ">>, <<"/">>),
                       "/")
    IN IF Len(parts) >= 2
       THEN [base |-> StrUpper(StrStrip(parts[1])), target |-> StrUpper(StrStrip(parts[2]))]
       ELSE [base |-> <<"U", "S", "D">>, target |-> StrUpper(StrStrip(parts[1]))]

\* get_currency_rate(*args, currency_pair=kw).  A server that answers
\* "empty" sends rates without the target currency; an empty target is in
\* no server's rates.
GetCurrencyRateResult(args, kw, server) ==
    LET currency_pair == NormalizeInput(FirstArg(args, kw))
        pair == ParseCurrencyPair(currency_pair)
        c == RequestsCall(server, RequestTimeout)
        try == IF c.status # "returned" THEN c
               ELSE IF c.kind = "empty" \/ pair.target = <<>>
               THEN Returned("currency_not_found")
               ELSE Returned("rate")
    IN [input |-> currency_pair, result |-> Caught(try, "rate_error"),
        base |-> pair.base, target |-> pair.target]

\* No stripping: the path is retried as it was given.
LStripChar_Keep(s, c) == s

\* s.lstrip(c)
RECURSIVE LStripChar(_, _)
LStripChar(s, c) ==
    IF Len(s) > 0 /\ s[1] = c THEN LStripChar(Tail(s), c) ELSE s

\* The file system read_file meets: whether the path as given (absolute)
\* and the path without its leading slashes exist, whether open() and
\* read() succeed, and whether os.name is "nt".
FileSystems ==
    [abs : BOOLEAN, rel : BOOLEAN, open : {"ok", "error"}, nt : BOOLEAN]

\* os.path.exists(p); the empty path never exists.
PathExists(p, fs) ==
    IF p = <<>> THEN FALSE ELSE IF StartsWith(p, <<"/">>) THEN fs.abs ELSE fs.rel

\* read_file(*args, file_path=kw)
ReadFileResult(args, kw, fs) ==
    LET original_path == NormalizeInput(FirstArg(args, kw))
        relative_path == LStripChar(original_path, "/")
        file_path ==
            IF ~StartsWith(original_path, <<"/">>) THEN original_path
            ELSE IF fs.nt THEN relative_path
            ELSE IF ~PathExists(original_path, fs) /\ Len(original_path) > 1
                    /\ PathExists(relative_path, fs)
            THEN relative_path
            ELSE original_path
        read == IF fs.open = "ok" THEN Returned("content")
                ELSE Raised(<<"PermissionError">>)
        try == IF PathExists(file_path, fs) THEN read
               ELSE IF StartsWith(file_path, <<"/">>)
                       /\ PathExists(LStripChar(file_path, "/"), fs)
               THEN read
               ELSE Returned("file_not_found")
    IN [input |-> file_path, result |-> Caught(try, "read_error")]

GeocoderTimeout == 10

\* What the geocoding service does with a query.
GeocodeOutcomes == {"found", "none", "silent", "unavailable", "error"}

\* geolocator.geocode(city, timeout=timeout) tried max_retries times against
\* a service that behaves as geo.
Geocode(geo, timeout) ==
    CASE geo = "silent" ->
             IF timeout = NoTimeout THEN Hung ELSE Raised(<<"Service", "timed out">>)
      [] geo = "unavailable" -> Raised(<<"GeocoderUnavailable">>)
      [] geo = "error" -> Raised(<<"GeocoderServiceError">>)
      [] OTHER -> Returned(geo)

\* How Nominatim(user_agent=..., timeout=10) ends: <<>> if it returns a
\* client, else the text of the exception it raises.
CtorOutcomes ==
    {<<>>, <<"ConfigurationError">>, <<"connect", "timeout">>,
     <<"service", "unavailable">>, <<"module", "not found">>}

\* The except clause of get_weather on exception e; bound tells whether
\* the local variable location had been assigned when e was raised, isNone
\* whether it was None.
WeatherExcept(e, bound, isNone) ==
    IF Contains(Lower(e), "timeout") \/ Contains(Lower(e), "timed out")
    THEN Returned("geocoder_timeout")
    ELSE IF Contains(e, "GeocoderUnavailable") \/ Contains(Lower(e), "unavailable")
    THEN Returned("geocoder_unavailable")
    ELSE IF Contains(Lower(e), "not found") THEN Returned("city_not_found_check")
    ELSE IF ~bound THEN Raised(<<"UnboundLocalError">>)
    ELSE IF isNone THEN Returned("city_not_found_check")
    ELSE Returned("weather_error")

\* get_weather(*args, city=kw)
GetWeatherResult(args, kw, ctor, geo, server) ==
    LET city == NormalizeInput(FirstArg(args, kw))
        location == Geocode(geo, GeocoderTimeout)
        weather == RequestsCall(server, RequestTimeout)
        try == IF ctor # <<>> THEN [r |-> Raised(ctor), bound |-> FALSE, isNone |-> FALSE]
               ELSE IF location.status # "returned"
               THEN [r |-> location, bound |-> TRUE, isNone |-> TRUE]
               ELSE IF location.kind = "none"
               THEN [r |-> Returned("city_not_found"), bound |-> TRUE, isNone |-> TRUE]
               ELSE IF weather.status # "returned"
               THEN [r |-> weather, bound |-> TRUE, isNone |-> FALSE]
               ELSE [r |-> Returned("weather"), bound |-> TRUE, isNone |-> FALSE]
    IN [input |-> city,
        result |-> IF try.r.status = "raised"
                   THEN WeatherExcept(try.r.exc, try.bound, try.isNone)
                   ELSE try.r]

\* The longest list passed to a tool.
MaxListLen == 3

\* What the raw arguments are made of: a method, a one-letter word that
\* serves as URL, city, coin or path, and the metadata dict of a call.
ToolItems == {StrI(<<"G", "E", "T">>), StrI(<<"u">>), DictI}

ToolStrings ==
    {<<>>, <<"u">>, <<"/", "u">>,
     <<"G", "E", "T", "|", "u">>,
     <<"p", "o", "s", "t", "|", "u", "|", "j", "|", "j">>,
     <<"G", "E", "T", "|", "u", "|", "x">>,
     <<"H", "E", "A", "D", "|", "u">>,
     <<"u", ",", "u">>,
     <<"U", "S", "D", "/", "E", "U", "R">>,
     <<"U", "S", "D", " ", "t", "o", " ", "E", "U", "R">>,
     <<"U", "S", "D", " ", "E", "U", "R">>,
     <<"E", "U", "R">>}

\* How an argument reaches a tool: as a list, alone, followed by call
\* metadata, as the keyword argument, or not at all.
ToolCalls ==
    {[args |-> <<ListV(l)>>, kw |-> NoKw] : l \in SeqsUpTo(ToolItems, MaxListLen)}
    \cup {[args |-> <<StrV(s)>>, kw |-> NoKw] : s \in ToolStrings}
    \cup {[args |-> <<StrV(s), DictV>>, kw |-> NoKw] : s \in ToolStrings}
    \cup {[args |-> <<DictV>>, kw |-> Kw(StrV(s))] : s \in ToolStrings}
    \cup {[args |-> <<>>, kw |-> NoKw]}

\* The file system of a call that does not meet one.
NoFs == [abs |-> FALSE, rel |-> FALSE, open |-> "ok", nt |-> FALSE]

\* A call of tool name that is about to be made, and its surroundings (a
\* tool meets only some of them): how the server, the geocoder's
\* constructor, the geocoding service and the file system will behave.
PendingTool(name, call, server, ctor, geo, fs) ==
    [called |-> FALSE, name |-> name, args |-> call.args, kw |-> call.kw,
     env |-> [server |-> server, ctor |-> ctor, geo |-> geo, fs |-> fs]]

\* The pending call of tool name is made and ends as r.
ToolCalled(name, r) ==
    /\ ~tool.called
    /\ tool.name = name
    /\ tool' = r @@ [called |-> TRUE, name |-> name, args |-> tool.args, kw |-> tool.kw,
                     env |-> tool.env]
    /\ UNCHANGED <<agentVars, term, norm, wf, loop, threads, botVars>>

HttpRequest ==
    ToolCalled("http_request", HttpRequestResult(tool.args, tool.kw, tool.env.server))

GetCryptoPrice ==
    ToolCalled("get_crypto_price", GetCryptoPriceResult(tool.args, tool.kw, tool.env.server))

GetCurrencyRate ==
    ToolCalled("get_currency_rate", GetCurrencyRateResult(tool.args, tool.kw, tool.env.server))

ReadFile ==
    ToolCalled("read_file", ReadFileResult(tool.args, tool.kw, tool.env.fs))

GetWeather ==
    ToolCalled("get_weather",
               GetWeatherResult(tool.args, tool.kw, tool.env.ctor, tool.env.geo,
                                tool.env.server))

\* Every tool with every argument in every surroundings it meets.
InitTools ==
    /\ AgentIdle
    /\ term = NoTerm /\ norm = NoTool /\ wf = NoTool /\ loop = NoLoop /\ BotIdle /\ threads = NoThreads
    /\ \E call \in ToolCalls :
           \/ \E name \in {"http_request", "get_crypto_price", "get_currency_rate"},
                 server \in ServerOutcomes :
                  tool = PendingTool(name, call, server, <<>>, "", NoFs)
           \/ \E fs \in FileSystems : tool = PendingTool("read_file", call, "", <<>>, "", fs)
           \/ \E ctor \in CtorOutcomes, geo \in GeocodeOutcomes, server \in ServerOutcomes :
                  tool = PendingTool("get_weather", call, server, ctor, geo, NoFs)

NextTools ==
    \/ HttpRequest
    \/ GetCryptoPrice
    \/ GetCurrencyRate
    \/ ReadFile
    \/ GetWeather

SpecTools == InitTools /\ [][NextTools]_vars

\* C11: a tool function never raises: every call of a tool returns a
\* string, also a get_weather call whose geocoder client cannot be
\* constructed.
C11_ToolsNeverRaise == tool.called => tool.result.status # "raised"

(***************************************************************************)
(* Concurrent handlers.  TeleBot(TELEGRAM_BOT_TOKEN) runs the message      *)
(* handlers on its worker threads; every handler calls process() of the    *)
(* one AIAgent, whose memory and memory file are the variables memory and  *)
(* file.  No lock is taken anywhere in the bot or the agent.               *)
(***************************************************************************)
NumWorkers == 2
Workers == 1..NumWorkers

\* A worker thread: where it is inside process(), the utterance it handles
\* and the locals messages and summary of _save_memory.
IdleThread == [pc |-> "idle", input |-> "", messages |-> <<>>, summary |-> ""]

\* Thread t is between its first and its last access to the memory or the
\* file.
InStore(t) == threads[t].pc \in {"human_added", "invoked", "dumped", "summarised", "opened"}

\* handle_message -> _process_agent_request -> agent.process(u)
Receive(t, u) ==
    /\ threads[t].pc = "idle"
    /\ threads' = [threads EXCEPT ![t] = [IdleThread EXCEPT !.pc = "invoking", !.input = u]]
    /\ UNCHANGED <<agentVars, term, tool, norm, wf, loop, botVars>>

\* The end of agent_executor.invoke: the memory's save_context appends the
\* input ...
AddHuman(t) ==
    /\ threads[t].pc = "invoking"
    /\ memory' = Append(memory, HumanMessage(threads[t].input))
    /\ threads' = [threads EXCEPT ![t].pc = "human_added"]
    /\ UNCHANGED <<agent, file, last, term, tool, norm, wf, loop, botVars>>

\* ... and then the output, in a second append.
AddAI(t, a) ==
    /\ threads[t].pc = "human_added"
    /\ memory' = Append(memory, AIMessage(a))
    /\ threads' = [threads EXCEPT ![t].pc = "invoked"]
    /\ UNCHANGED <<agent, file, last, term, tool, norm, wf, loop, botVars>>

\* _save_memory, lines 196-203: the local list messages.
DumpStep(t) ==
    /\ threads[t].pc = "invoked"
    /\ threads' = [threads EXCEPT ![t].pc = "dumped", ![t].messages = DumpMessages(memory)]
    /\ UNCHANGED <<agentVars, term, tool, norm, wf, loop, botVars>>

\* Line 206: the summary of the memory as it is now.
SummaryStep(t, llm) ==
    /\ threads[t].pc = "dumped"
    /\ threads' = [threads EXCEPT ![t].pc = "summarised",
                                  ![t].summary = GenerateSummary(memory, llm)]
    /\ UNCHANGED <<agentVars, term, tool, norm, wf, loop, botVars>>

\* Line 216: open(self.memory_file, 'w') truncates the file.
OpenStep(t) ==
    /\ threads[t].pc = "summarised"
    /\ file' = File(TRUE, TRUE, FALSE, EmptyDoc)
    /\ threads' = [threads EXCEPT ![t].pc = "opened"]
    /\ UNCHANGED <<agent, memory, last, term, tool, norm, wf, loop, botVars>>

\* Line 217: json.dump writes the text from offset 0 of the thread's own
\* file object.  A text that another thread wrote after this thread's
\* open() is overwritten from the start: what stays of a longer text
\* behind the new one makes the file no JSON text.  Then process() returns.
JsonDumpStep(t) ==
    /\ threads[t].pc = "opened"
    /\ file' = IF file.complete /\ Len(file.doc.messages) > Len(threads[t].messages)
               THEN File(TRUE, TRUE, FALSE, EmptyDoc)
               ELSE File(TRUE, TRUE, TRUE,
                         Doc("object", "list", threads[t].messages, threads[t].summary))
    /\ threads' = [threads EXCEPT ![t].pc = "done"]
    /\ UNCHANGED <<agent, memory, last, term, tool, norm, wf, loop, botVars>>

InitConc ==
    /\ agent = "up" /\ memory = <<>> /\ file = MissingFile /\ last = NoCall
    /\ term = NoTerm /\ tool = NoTool /\ norm = NoTool /\ wf = NoTool /\ loop = NoLoop /\ BotIdle
    /\ threads = [t \in Workers |-> IdleThread]

NextConc ==
    \E t \in Workers :
        \/ \E u \in Utterances : Receive(t, u)
        \/ AddHuman(t)
        \/ \E a \in Answers : AddAI(t, a)
        \/ DumpStep(t)
        \/ \E llm \in {"ok", "error"} : SummaryStep(t, llm)
        \/ OpenStep(t)
        \/ JsonDumpStep(t)

SpecConc == InitConc /\ [][NextConc]_vars

\* The file is a complete JSON text whose messages are those of all the
\* workers' cycles.
HoldsAllCycles ==
    LET loaded == LoadMemory(file, <<>>).mem IN
    /\ file.exists /\ file.complete
    /\ Len(loaded) = 2 * NumWorkers
    /\ \A t \in Workers : \E i \in 1..Len(loaded) : loaded[i] = HumanMessage(threads[t].input)

\* C12: the accesses of concurrent process() calls to the shared memory
\* and file exclude each other, and when two concurrent handlers have
\* finished, the file contains the messages of both cycles.
C12_Serialized ==
    threads # NoThreads =>
        /\ \A s, t \in Workers : InStore(s) /\ InStore(t) => s = t
        /\ (\A t \in Workers : threads[t].pc = "done") => HoldsAllCycles

NetworkTools == {"http_request", "get_weather", "get_crypto_price", "get_currency_rate"}

\* C13: every network tool applies a finite timeout: a call whose server
\* never responds still comes back with a string.
C13_NetworkToolsTimeOut ==
    /\ tool.called /\ tool.name \in NetworkTools
    /\ (tool.env.server = "silent" \/ tool.env.geo = "silent")
    => tool.result.status = "returned"

(***************************************************************************)
(* The dispatch cycle: agent_executor.invoke inside process().  The        *)
(* AgentExecutor is built without max_iterations, which leaves it at 15,   *)
(* and without early_stopping_method, which leaves it at "force": when     *)
(* the iterations are used up invoke returns a fixed stop text as output.  *)
(***************************************************************************)
max_iterations == 15

\* AgentExecutor._should_continue
ShouldContinue(iterations) == iterations < max_iterations

\* The tool calls the completion capability asks for in the model.
LoopCall == [args |-> <<StrV(<<"G", "E", "T", "|", "u">>)>>, kw |-> NoKw]

\* The surroundings a tool call of the cycle can meet: how the server
\* behaves and how the geocoder's constructor ends.
LoopEnvs == ServerOutcomes \X {<<>>, <<"ConfigurationError">>}

\* How the call of each tool ends in each surroundings.
ToolResults ==
    {[name |-> name, env |-> env,
      result |->
        CASE name = "http_request" ->
                 HttpRequestResult(LoopCall.args, LoopCall.kw, env[1]).result
          [] name = "get_crypto_price" ->
                 GetCryptoPriceResult(LoopCall.args, LoopCall.kw, env[1]).result
          [] name = "get_currency_rate" ->
                 GetCurrencyRateResult(LoopCall.args, LoopCall.kw, env[1]).result
          [] OTHER ->
                 GetWeatherResult(LoopCall.args, LoopCall.kw, env[2], "found", env[1]).result] :
     name \in NetworkTools, env \in LoopEnvs}

\* How the call of tool name ends when its server behaves as server and
\* the geocoder's constructor as ctor.
ToolResult(name, server, ctor) ==
    (CHOOSE t \in ToolResults : t.name = name /\ t.env = <<server, ctor>>).result

\* process(u) calls agent_executor.invoke.
StartCycle(u) ==
    /\ loop.pc = "Idle"
    /\ loop' = [loop EXCEPT !.pc = "AwaitingCompletion", !.iterations = 0]
    /\ UNCHANGED <<agentVars, term, tool, norm, wf, threads, botVars>>

\* The completion capability answers: a final answer, a tool call, or a
\* failure (c of Completions); a tool call names the tool, and the model
\* fixes here how that tool's server will behave.
Complete(c, name, server, ctor) ==
    /\ loop.pc = "AwaitingCompletion"
    /\ ShouldContinue(loop.iterations)
    /\ loop' = IF c.kind = "answer"
               THEN [loop EXCEPT !.pc = "Done", !.output = c.answer]
               ELSE IF c.kind = "tool"
               THEN [loop EXCEPT !.pc = "ExecutingTool", !.tool = name,
                                 !.server = server, !.ctor = ctor]
               ELSE [loop EXCEPT !.pc = "Failed", !.output = "error"]
    /\ UNCHANGED <<agentVars, term, tool, norm, wf, threads, botVars>>

\* The iterations are used up: invoke returns the stop text.
ForceStop ==
    /\ loop.pc = "AwaitingCompletion"
    /\ ~ShouldContinue(loop.iterations)
    /\ loop' = [loop EXCEPT !.pc = "Done", !.output = "Agent stopped due to iteration limit or time limit."]
    /\ UNCHANGED <<agentVars, term, tool, norm, wf, threads, botVars>>

\* The tool is run on the thread of the cycle.  Its string goes back to
\* the completion capability; an exception it raises leaves invoke and is
\* turned into an error string by process(); a call that never comes back
\* leaves the cycle where it is.
ExecuteTool ==
    /\ loop.pc = "ExecutingTool"
    /\ LET r == ToolResult(loop.tool, loop.server, loop.ctor) IN
       /\ r.status # "hung"
       /\ loop' = IF r.status = "returned"
                  THEN [loop EXCEPT !.pc = "AwaitingCompletion",
                                    !.iterations = loop.iterations + 1]
                  ELSE [loop EXCEPT !.pc = "Failed", !.output = "error"]
    /\ UNCHANGED <<agentVars, term, tool, norm, wf, threads, botVars>>

InitLoop ==
    /\ AgentIdle
    /\ term = NoTerm /\ tool = NoTool /\ norm = NoTool /\ wf = NoTool
    /\ loop = NoLoop /\ BotIdle /\ threads = NoThreads

NextLoop ==
    \/ \E u \in Utterances : StartCycle(u)
    \/ \E c \in Completions \cup {[kind |-> "tool"]}, name \in NetworkTools,
          env \in LoopEnvs :
          Complete(c, name, env[1], env[2])
    \/ ForceStop
    \/ ExecuteTool

SpecLoop == InitLoop /\ [][NextLoop]_vars

\* C14: every dispatch cycle ends in Done or Failed: a cycle that has not
\* ended can always take its next step, and the completion/tool iteration
\* is cut off after max_iterations iterations, also when every tool result
\* is answered with another tool call.
C14_CycleTerminates ==
    /\ loop.iterations <= max_iterations
    /\ loop.pc \in {"AwaitingCompletion", "ExecutingTool"} => ENABLED NextLoop

\* C15: when the command exceeds the 30 second bound, execute_terminal
\* returns the timeout string; no other way the call can end (completed
\* with any output, any other failure, a refusal) gives that string, and
\* nothing the command printed before it was killed is part of it.
C15_TimeoutString ==
    term.called /\ term.result.spawned /\ term.run.kind = "timeout" =>
        /\ term.result.text = TimeoutText
        /\ \A i \in 1..Len(term.result.text) :
               \A j \in 1..Len(term.run.output) :
                   term.run.output # TimeoutText => term.result.text[i] # term.run.output[j]
        /\ \A run \in RunOutcomes :
               run.kind # "timeout" => RunText(run) # term.result.text
        /\ \A i \in 1..Len(dangerous_commands) :
               RefusalText(dangerous_commands[i]) # term.result.text

C15_Witness ==
    /\ term.called /\ term.result.spawned /\ term.run.kind = "timeout"
    /\ term.run.output = <<"out">>
    /\ term.result.text = TimeoutText

\* A call that got as far as _save_memory, which calls _generate_summary.
Summarised == last.op \in {"process", "clear"} /\ last.kind # "error"

\* C16: on an empty message list _generate_summary returns the
\* history-is-empty string and does not call the summary model; when the
\* summary model fails it returns the fallback string; it never raises,
\* so the file a successful write leaves carries that string.
C16_SummaryStrings ==
    Summarised =>
        /\ last.count = 0 => last.summary = EmptySummary /\ ~last.invoked
        /\ last.count > 0 /\ last.llm = "error" => last.summary = FallbackSummary
        /\ last.io = "ok" => file.complete /\ file.doc.summary = last.summary

C16_Witness ==
    /\ last.op = "clear" /\ last.before > 0 /\ last.count = 0 /\ last.llm = "error"
    /\ last.io = "ok" /\ file.doc.summary = EmptySummary /\ ~last.invoked

(***************************************************************************)
(* _normalize_input on its own.                                            *)
(***************************************************************************)
\* The raw arguments: the scalars, and every list of up to MaxListLen
\* entries out of three words, the empty string and a metadata dict.
NormValues ==
    {ListV(l) : l \in SeqsUpTo(ToolItems \cup {StrI(<<"P", "a", "r", "i", "s">>), StrI(<<>>)},
                               MaxListLen)}
    \cup {StrV(s) : s \in ToolStrings} \cup {DictV}

\* The call _normalize_input(norm.value).
Normalize ==
    /\ ~norm.called
    /\ norm' = [called |-> TRUE, value |-> norm.value, result |-> NormalizeInput(norm.value)]
    /\ UNCHANGED <<agentVars, term, tool, wf, loop, threads, botVars>>

InitNorm ==
    /\ AgentIdle
    /\ term = NoTerm /\ tool = NoTool /\ wf = NoTool /\ loop = NoLoop /\ BotIdle /\ threads = NoThreads
    /\ \E value \in NormValues : norm = [called |-> FALSE, value |-> value]

NextNorm == Normalize

SpecNorm == InitNorm /\ [][NextNorm]_vars

\* The entries of a list that are not dicts, in order.
RECURSIVE NonDicts(_)
NonDicts(items) ==
    IF Len(items) = 0 THEN <<>>
    ELSE IF items[Len(items)].kind = "dict" THEN NonDicts(SubSeq(items, 1, Len(items) - 1))
    ELSE Append(NonDicts(SubSeq(items, 1, Len(items) - 1)), items[Len(items)])

\* The string forms of the entries with one space between neighbours.
RECURSIVE SpaceJoined(_)
SpaceJoined(items) ==
    IF Len(items) = 0 THEN <<>>
    ELSE LET front == SubSeq(items, 1, Len(items) - 1)
             final == IF items[Len(items)].kind = "dict" THEN DictStr ELSE items[Len(items)].s
         IN IF Len(front) = 0 THEN final ELSE SpaceJoined(front) \o <<" ">> \o final

\* C17: _normalize_input returns the string form of a scalar; "" for an
\* empty list; for a list without a non-dict entry its only element's
\* string form, or all elements joined by one space; for a list with one
\* non-dict entry that entry; for a list with several, those entries
\* joined by one space.
C17_NormalizeCases ==
    norm.called =>
        LET v == norm.value
            real == NonDicts(v.items)
        IN /\ v.kind = "str" => norm.result = v.s
           /\ v.kind = "dict" => norm.result = DictStr
           /\ v.kind = "list" /\ Len(v.items) = 0 => norm.result = <<>>
           /\ v.kind = "list" /\ Len(real) = 0 /\ Len(v.items) = 1 => norm.result = DictStr
           /\ v.kind = "list" /\ Len(real) = 0 /\ Len(v.items) > 1 =>
                  norm.result = SpaceJoined(v.items)
           /\ v.kind = "list" /\ Len(real) = 1 => norm.result = real[1].s
           /\ v.kind = "list" /\ Len(real) > 1 => norm.result = SpaceJoined(real)

C17_Witness ==
    /\ norm.called
    /\ norm.value = ListV(<<StrI(<<"P", "a", "r", "i", "s">>), DictI>>)
    /\ norm.result = <<"P", "a", "r", "i", "s">>

\* C18: for every tool, the metadata dicts of a raw argument list that has
\* at least one real entry are discarded: no dict's text is part of the
\* input the tool parses, also for http_request and get_crypto_price.
C18_MetadataDiscarded ==
    /\ tool.called /\ Len(tool.args) > 0
    /\ tool.args[1].kind = "list"
    /\ \E i \in 1..Len(tool.args[1].items) : IsReal(tool.args[1].items[i])
    => \A i \in 1..Len(tool.input) : tool.input[i] \notin {DictStr[1], DictStr[2]}

(***************************************************************************)
(* The tools whose argument is a pair "a|b": write_file and                *)
(* generate_qr_code.                                                       *)
(***************************************************************************)

\* The list handling without the filter of lines 317 and 703.
PairStr_Unfiltered(v) ==
    IF v.kind = "list"
    THEN IF Len(v.items) >= 2 THEN Str(v.items[1]) \o <<"|">> \o Str(v.items[2])
         ELSE IF Len(v.items) = 1 THEN Str(v.items[1])
         ELSE <<>>
    ELSE Str(v)

\* Lines 315-325 of write_file_impl and 701-711 of generate_qr_code: the
\* string made of the argument.
PairStr(v) ==
    IF v.kind = "list"
    THEN LET filtered == SelectSeq(v.items, IsReal) IN
         IF Len(filtered) >= 2 THEN Str(filtered[1]) \o <<"|">> \o Str(filtered[2])
         ELSE IF Len(filtered) = 1 THEN Str(filtered[1])
         ELSE IF Len(v.items) > 0 THEN Str(v.items[1])
         ELSE <<>>
    ELSE Str(v)

\* The argument write_file_wrapper hands to write_file_impl.
WriteFileArg(args, kw) ==
    LET real_args == ExtractToolArgs(args) IN
    IF Len(real_args) > 0 THEN real_args[1]
    ELSE IF Len(args) > 0 THEN args[1]
    ELSE IF kw.has THEN kw.value
    ELSE StrV(<<>>)

\* The file at the path a call names: absent, or holding content.
DiskFile(exists, content) == [exists |-> exists, content |-> content]

\* write_file_wrapper(*args, file_path_and_content=kw) on the file disk
\* when open() and write() end as io ("ok" or "error").  The paths of the
\* model have no directory part, so dir_path is '.' and nothing is created.
WriteFileImpl(args, kw, disk, io) ==
    LET file_path_and_content == PairStr(WriteFileArg(args, kw))
        parts == Split1(file_path_and_content, "|")
        file_path == StrStrip(parts[1])
        content == IF Len(parts) > 1 THEN StrStrip(parts[2]) ELSE <<>>
    IN IF file_path = <<>>
       THEN [input |-> file_path_and_content, kind |-> "no_path", file_path |-> file_path,
             size |-> 0, disk |-> disk]
       ELSE IF io # "ok"
       THEN [input |-> file_path_and_content, kind |-> "write_error",
             file_path |-> file_path, size |-> 0, disk |-> disk]
       ELSE [input |-> file_path_and_content, kind |-> "written", file_path |-> file_path,
             size |-> Len(content), disk |-> DiskFile(TRUE, content)]

\* generate_qr_code(*args, data_and_path=kw) when the qrcode library is
\* available or not and img.save ends as io; with an empty file name the
\* path is the directory of the QR codes, which img.save cannot open.
GenerateQrCodeImpl(args, kw, disk, io, available) ==
    LET data_and_path == PairStr(FirstArg(args, kw))
        parts == Split1(data_and_path, "|")
        data == StrStrip(parts[1])
        file_path == IF Len(parts) > 1 THEN StrStrip(parts[2]) ELSE <<"q", "r", ".", "p", "n", "g">>
    IN IF ~available
       THEN [input |-> <<>>, kind |-> "no_library", file_path |-> <<>>, size |-> 0,
             disk |-> disk]
       ELSE IF data = <<>>
       THEN [input |-> data_and_path, kind |-> "no_data", file_path |-> file_path,
             size |-> 0, disk |-> disk]
       ELSE IF io # "ok" \/ file_path = <<>>
       THEN [input |-> data_and_path, kind |-> "qr_error", file_path |-> file_path,
             size |-> 0, disk |-> disk]
       ELSE [input |-> data_and_path, kind |-> "qr_created", file_path |-> file_path,
             size |-> 0, disk |-> DiskFile(TRUE, <<"png of">> \o data)]

\* The longest string passed to these tools.
MaxTextLen == 4

\* How an argument reaches these tools: as a string, every text of up to
\* MaxTextLen characters out of a letter, the separator and a blank; as a
\* list of up to MaxListLen entries out of two words, a word with blanks
\* around it and a metadata dict; after metadata; as the keyword argument;
\* or not at all.
PairCalls ==
    {[args |-> <<StrV(s)>>, kw |-> NoKw] : s \in SeqsUpTo({"a", "|", " "}, MaxTextLen)}
    \cup {[args |-> <<ListV(l)>>, kw |-> NoKw] :
              l \in SeqsUpTo({StrI(<<"a">>), StrI(<<"b">>), StrI(<<" ", "c", " ">>), DictI},
                             MaxListLen)}
    \cup {[args |-> <<DictV, StrV(<<"a", "|", "b">>)>>, kw |-> NoKw],
          [args |-> <<DictV>>, kw |-> Kw(StrV(<<"a", "|", "b">>))],
          [args |-> <<>>, kw |-> Kw(StrV(<<"a", "|", "b">>))],
          [args |-> <<>>, kw |-> NoKw]}

\* The pending call is made and ends as r.
PairCalled(name, r) ==
    /\ ~wf.called
    /\ wf.name = name
    /\ wf' = [called |-> TRUE, name |-> name, args |-> wf.args, kw |-> wf.kw,
              before |-> wf.before, io |-> wf.io, available |-> wf.available,
              result |-> r]
    /\ UNCHANGED <<agentVars, term, tool, norm, loop, threads, botVars>>

WriteFileTool == PairCalled("write_file", WriteFileImpl(wf.args, wf.kw, wf.before, wf.io))

GenerateQrCode ==
    PairCalled("generate_qr_code",
               GenerateQrCodeImpl(wf.args, wf.kw, wf.before, wf.io, wf.available))

\* A call of one of the two tools is about to be made: the file at the
\* path it will name is absent or holds an old text, open() and write()
\* will succeed or fail, the qrcode library is installed or not.
InitWrite ==
    /\ AgentIdle
    /\ term = NoTerm /\ tool = NoTool /\ norm = NoTool /\ loop = NoLoop /\ BotIdle /\ threads = NoThreads
    /\ \E call \in PairCalls, io \in {"ok", "error"}, available \in BOOLEAN,
          name \in {"write_file", "generate_qr_code"},
          disk \in {DiskFile(FALSE, <<>>), DiskFile(TRUE, <<"o", "l", "d">>)} :
           /\ name = "write_file" => available
           /\ wf = [called |-> FALSE, name |-> name, args |-> call.args, kw |-> call.kw,
                    before |-> disk, io |-> io, available |-> available]

NextWrite == WriteFileTool \/ GenerateQrCode

SpecWrite == InitWrite /\ [][NextWrite]_vars

\* The list a call passes as its argument, <<>> if it passes none.
PairList ==
    IF Len(wf.args) = 1 /\ wf.args[1].kind = "list" THEN wf.args[1].items ELSE <<>>

\* C19: write_file and generate_qr_code turn a list with two or more
\* non-dict entries into the first two of them joined by '|', a list with
\* one non-dict entry into that entry, and no dict takes part.
C19_PairNormalized ==
    wf.called /\ wf.result.kind # "no_library" =>
        LET real == NonDicts(PairList) IN
        /\ Len(real) >= 2 => wf.result.input = real[1].s \o <<"|">> \o real[2].s
        /\ Len(real) = 1 => wf.result.input = real[1].s

C19_Witness ==
    /\ wf.called /\ wf.name = "generate_qr_code"
    /\ PairList = <<StrI(<<"a">>), DictI, StrI(<<"b">>)>>
    /\ wf.result.input = <<"a", "|", "b">>

\* C20: write_file called with "path|content" splits at the first '|'
\* only, leaves at path a file that holds exactly content, whatever
\* content is (blanks at its ends, further '|'), and returns the success
\* string with the file's name and the size written.
C20_WritesExactContent ==
    /\ wf.called /\ wf.name = "write_file" /\ wf.io = "ok"
    /\ Len(wf.args) = 1 /\ wf.args[1].kind = "str"
    /\ HasChar(wf.args[1].s, "|")
    /\ StrStrip(SubSeq(wf.args[1].s, 1, FirstChar(wf.args[1].s, "|") - 1)) # <<>>
    => LET s == wf.args[1].s
           content == SubSeq(s, FirstChar(s, "|") + 1, Len(s))
       IN /\ wf.result.kind = "written"
          /\ wf.result.disk = DiskFile(TRUE, content)
          /\ wf.result.size = Len(content)

(***************************************************************************)
(* The strings write_file returns.                                         *)
(***************************************************************************)

\* Lines 343, 359 and 362 of write_file_impl: the string returned by a
\* call that ended as r.  The warning of line 337 goes to the log only.
WriteFileReturn(r) ==
    IF r.kind = "no_path" THEN <<"Error: no file path given">>
    ELSE IF r.kind = "write_error" THEN <<"File write error: ", <<"OSError">>>>
    ELSE <<"File ", r.file_path, " written (", r.size, " characters).">>

\* C21: write_file called with a non-empty string without '|' leaves an
\* empty file at that path and returns a success string that differs from
\* the one returned for the same path followed by '|' and no content.
C21_WarningQualified ==
    /\ wf.called /\ wf.name = "write_file" /\ wf.io = "ok"
    /\ Len(wf.args) = 1 /\ wf.args[1].kind = "str"
    /\ wf.args[1].s # <<>> /\ ~HasChar(wf.args[1].s, "|")
    => LET plain == WriteFileImpl(<<StrV(wf.args[1].s \o <<"|">>)>>, NoKw, wf.before, "ok")
       IN /\ wf.result.kind = "written"
          /\ wf.result.disk = DiskFile(TRUE, <<>>)
          /\ WriteFileReturn(wf.result) # WriteFileReturn(plain)

\* The path a read_file call was given, as read_file normalizes it.
OriginalPath == NormalizeInput(FirstArg(tool.args, tool.kw))

\* C22: read_file given a path that starts with '/' and does not exist as
\* an absolute path goes on to the path without its leading '/', reads
\* that relative file when it exists, and returns the not-found string
\* exactly when the relative path does not exist either.
C22_RelativeRetry ==
    /\ tool.called /\ tool.name = "read_file"
    /\ StartsWith(OriginalPath, <<"/">>)
    /\ ~tool.env.fs.abs
    => LET relative_path == SubSeq(OriginalPath, 2, Len(OriginalPath))
           exists == relative_path # <<>> /\ tool.env.fs.rel
       IN /\ exists => tool.input = relative_path
          /\ exists /\ tool.env.fs.open = "ok" => tool.result = Returned("content")
          /\ exists /\ tool.env.fs.open # "ok" => tool.result = Returned("read_error")
          /\ ~exists <=> tool.result = Returned("file_not_found")

C22_Witness ==
    /\ tool.called /\ tool.name = "read_file"
    /\ OriginalPath = <<"/", "u">>
    /\ ~tool.env.fs.abs /\ tool.env.fs.rel /\ ~tool.env.fs.nt /\ tool.env.fs.open = "ok"
    /\ tool.input = <<"u">>
    /\ tool.result = Returned("content")

\* The four documented forms of a currency pair that mean USD to EUR.
DocumentedPairs ==
    {<<"U", "S", "D", "/", "E", "U", "R">>,
     <<"U", "S", "D", " ", "t", "o", " ", "E", "U", "R">>,
     <<"U", "S", "D", " ", "E", "U", "R">>,
     <<"E", "U", "R">>}

\* C23: get_currency_rate makes base USD and target EUR of each documented
\* form: "USD/EUR", "USD to EUR", "USD EUR" and the single currency "EUR".
C23_PairParsed ==
    tool.called /\ tool.name = "get_currency_rate" /\ tool.input \in DocumentedPairs
    => tool.base = <<"U", "S", "D">> /\ tool.target = <<"E", "U", "R">>

(***************************************************************************)
(* _load_memory on an agent that has already loaded its memory file.       *)
(***************************************************************************)

\* _load_memory is called on the constructed agent: lines 177-183 add the
\* messages of the file to whatever self.memory holds.
LoadAgain ==
    /\ agent = "up"
    /\ LET r == LoadMemory(file, memory) IN
       /\ Len(r.mem) <= MaxMessages
       /\ memory' = r.mem
       /\ last' = [NoCall EXCEPT !.op = "load", !.exc = r.exc, !.raised = r.propagated,
                                 !.returned = (r.propagated = ""), !.count = Len(r.mem)]
    /\ UNCHANGED <<agent, file, toolVars>>

\* The agent has been constructed on a memory file and holds what
\* __init__ loaded from it.
InitReload ==
    /\ agent = "up"
    /\ file \in InitFiles
    /\ memory = LoadMemory(file, <<>>).mem
    /\ last = NoCall
    /\ ToolsIdle

NextReload == LoadAgain

SpecReload == InitReload /\ [][NextReload]_vars

\* C24: loading is idempotent: a load performed while the persisted
\* messages are in memory adds none of them again, so after any number of
\* loads the memory holds each persisted message exactly once.
C24_LoadIdempotent == memory = LoadMemory(file, <<>>).mem

(***************************************************************************)
(* The Telegram bot (src/bot): one AIAgent behind the handlers of every    *)
(* chat, and the pending state of each user.  A text is a sequence of      *)
(* words and blanks; the buttons of the keyboard are written [Weather],    *)
(* [Crypto], [Currency], [Search], [QR], [Help] and [Status].              *)
(***************************************************************************)

\* set_user_state(user_id, state); None and a missing key are both "".
SetUserState(states, user_id, state) == [states EXCEPT ![user_id] = state]

\* A lookup that finds no pending state.
GetUserState_None(states, user_id) == ""

\* get_user_state(user_id)
GetUserState(states, user_id) == states[user_id]

\* A clear_user_state that leaves the state where it is.
ClearUserState_Keep(states, user_id) == states

\* clear_user_state(user_id)
ClearUserState(states, user_id) == SetUserState(states, user_id, "")

\* _handle_button_press: the state a button sets, "" if it sets none.
ButtonState(button_text) ==
    CASE button_text = <<"[Weather]">> -> "waiting_weather_city"
      [] button_text = <<"[Crypto]">> -> "waiting_crypto"
      [] button_text = <<"[Currency]">> -> "waiting_currency"
      [] button_text = <<"[Search]">> -> "waiting_search"
      [] button_text = <<"[QR]">> -> "waiting_qr_code"
      [] OTHER -> ""

\* The buttons that are answered at once.
InfoButtons == {<<"[Help]">>, <<"[Status]">>}

\* _handle_state_message: the query made of the answer to a pending
\* question.
StateQuery(state, user_input) ==
    CASE state = "waiting_weather_city" -> <<"What is the weather in">> \o user_input \o <<"?">>
      [] state = "waiting_crypto" -> <<"How much is">> \o user_input \o <<"?">>
      [] state = "waiting_currency" -> <<"What is the rate of">> \o user_input \o <<"?">>
      [] state = "waiting_search" -> <<"Find information about">> \o user_input
      [] state = "waiting_qr_code" -> <<"Create a QR code for">> \o user_input
      [] OTHER -> user_input

\* handle_message(message) up to the call of _process_agent_request, or to
\* its end when the agent is not asked: the pending state is looked at
\* first, then the buttons.
HandleMessage(user_id, user_input) ==
    /\ chat.pc = "idle"
    /\ LET user_state == GetUserState(user_states, user_id)
           button_text == StrStrip(user_input)
           seen(handler, pc, query) ==
               [pc |-> pc, handler |-> handler, user |-> user_id, text |-> user_input,
                state |-> user_state, query |-> query]
       IN IF user_state # ""
          THEN /\ user_states' = ClearUserState(user_states, user_id)
               /\ chat' = seen("state", "agent", StateQuery(user_state, user_input))
          ELSE IF ButtonState(button_text) # ""
          THEN /\ user_states' = SetUserState(user_states, user_id, ButtonState(button_text))
               /\ chat' = seen("button", "idle", <<>>)
          ELSE IF button_text \in InfoButtons
          THEN /\ chat' = seen("info", "idle", <<>>)
               /\ UNCHANGED user_states
          ELSE /\ chat' = seen("regular", "agent", user_input)
               /\ UNCHANGED user_states
    /\ UNCHANGED <<agentVars, term, tool, norm, wf, loop, threads, split>>

\* _process_agent_request: agent.process(query) on the one agent of the
\* bot, then the reply.
ProcessAgentRequest(c, io, llm) ==
    /\ chat.pc = "agent"
    /\ ProcessCall(chat.query, c, io, llm)
    /\ chat' = [chat EXCEPT !.pc = "idle"]
    /\ UNCHANGED <<term, tool, norm, wf, loop, threads, user_states, split>>

\* handle_clear: the /clear command of any user.
HandleClear(user_id, io, llm) ==
    /\ chat.pc = "idle"
    /\ ClearCall(io, llm)
    /\ chat' = [pc |-> "idle", handler |-> "clear", user |-> user_id, text |-> <<"/clear">>,
                state |-> GetUserState(user_states, user_id), query |-> <<>>]
    /\ UNCHANGED <<term, tool, norm, wf, loop, threads, user_states, split>>

\* The texts the users send.
BotTexts == {<<"[Weather]">>, <<"[Crypto]">>, <<"[Help]">>, <<"Paris">>, <<" ", "[Weather]">>}

\* TelegramAIAgent.__init__ has constructed the agent on no memory file.
InitBot ==
    /\ agent = "up" /\ memory = <<>> /\ file = MissingFile /\ last = NoCall
    /\ ToolsIdle

NextBot ==
    \/ \E user_id \in Users, user_input \in BotTexts : HandleMessage(user_id, user_input)
    \/ \E c \in {x \in Completions : x.err \in {<<>>, <<"401">>}} :
          ProcessAgentRequest(c, "ok", "ok")
    \/ \E user_id \in Users : HandleClear(user_id, "ok", "ok")

SpecBot == InitBot /\ [][NextBot]_vars

\* The step is handle_message on a text of chat'.user.
MessageStep == chat.pc = "idle" /\ chat' # chat /\ chat'.handler # "clear"

\* C25: the pending state is kept per user and cleared once consumed: the
\* text a user sends while a waiting state is set for them becomes the
\* query of that state, and their state is cleared before the agent is
\* called and stays cleared when the agent has answered or failed; no
\* step changes the state of a user other than the one whose message is
\* handled.
C25_PendingConsumed ==
    [][LET u == chat'.user IN
       /\ MessageStep /\ user_states[u] # ""
          => /\ chat'.pc = "agent" /\ chat'.handler = "state"
             /\ user_states'[u] = ""
             /\ user_states[u] = "waiting_weather_city"
                => chat'.query = <<"What is the weather in">> \o chat'.text \o <<"?">>
             /\ user_states[u] = "waiting_crypto"
                => chat'.query = <<"How much is">> \o chat'.text \o <<"?">>
       /\ chat.pc = "agent" => /\ user_states' = user_states
                               /\ chat.handler = "state" => user_states'[chat.user] = ""
       /\ \A v \in Users \ {u} : user_states'[v] = user_states[v]]_vars

\* A's answer to the weather question has been consumed and the agent's
\* request has failed: A's state is cleared, B's is still pending.
C25_Witness ==
    /\ chat.pc = "idle" /\ chat.handler = "state" /\ chat.user = "A"
    /\ chat.state = "waiting_weather_city" /\ chat.text = <<"Paris">>
    /\ last.op = "process" /\ last.kind = "error"
    /\ user_states["A"] = "" /\ user_states["B"] = "waiting_crypto"

\* The step is a process() call that returns one of the error messages of
\* its except clause, for a failure of the completion capability or of
\* the file system.
ErrorStep ==
    /\ last'.op = "process" /\ last' # last
    /\ last'.returned
    /\ \E e \in ErrorTexts \cup {<<"OSError">>} : last'.ret = ErrorMessage(e)

\* C26: a process() call that ends in a classified error message leaves
\* the conversation as it was: the memory file is not written and neither
\* the utterance nor the error message is added to the memory.
C26_ErrorLeavesConversation ==
    [][ErrorStep => /\ file' = file
                    /\ memory' = memory
                    /\ last'.exc = "" /\ last'.io = ""
                    /\ last'.kind = "error"]_vars

\* A failed request on a memory that holds an earlier exchange, which is
\* still all the memory and the file hold.
C26_Witness ==
    /\ last.op = "process" /\ last.kind = "error" /\ last.ret = RateLimitMsg
    /\ last.input = "u2"
    /\ memory = <<HumanMessage("u1"), AIMessage("a1")>>
    /\ FileHolds(file, memory)

\* The step is handle_message on a text of a user other than the one whose
\* request the agent has just answered, and it goes to the agent.
NextUserAsks ==
    /\ chat.pc = "idle" /\ chat.handler \in {"state", "regular"}
    /\ last.op = "process" /\ last.kind = "answer" /\ last.returned
    /\ chat'.pc = "agent" /\ chat'.user # chat.user

\* C27: every chat is served by the one agent with its one memory and
\* memory file: when a user's request has been answered, the history of
\* the next request of another user holds that utterance and that answer,
\* and a /clear of any user leaves the memory of all of them empty.
C27_SharedMemory ==
    [][/\ NextUserAsks
          => /\ Len(memory') >= 2
             /\ SubSeq(memory', Len(memory') - 1, Len(memory'))
                    = <<HumanMessage(chat.query), AIMessage(last.answer)>>
       /\ chat'.handler = "clear" /\ chat' # chat => memory' = <<>>]_vars

\* B's request is about to be handed to the agent, whose memory holds
\* what A asked and was answered.
C27_Witness ==
    /\ chat.pc = "agent" /\ chat.user = "B" /\ chat.query = <<"Paris">>
    /\ memory = <<HumanMessage(<<"What is the weather in", "Paris", "?">>), AIMessage("a1")>>
    /\ last.op = "process" /\ last.input = <<"What is the weather in", "Paris", "?">>
    /\ user_states = NoStates

\* The commands of the claim: two that begin with a denylisted name inside
\* a longer word, three in which the name comes after something else.
LongerWords == {<<"r", "m", "d", "i", "r", " ", "x">>, <<"d", "d", "r", "e", "s", "c", "u", "e">>}
NameComesLater ==
    {<<"s", "u", "d", "o", " ", "r", "m">>, <<"l", "s", ";", "r", "m", " ", "x">>,
     <<"/", "b", "i", "n", "/", "r", "m">>}

\* C28: execute_terminal refuses a command exactly when its lowercased,
\* trimmed text begins with one of the seven denylisted names, as a
\* prefix of the raw text and not as its first word: "rmdir x" and
\* "ddrescue" are refused, and a command in which the name comes after
\* something else is handed to the shell.
C28_RawPrefix ==
    term.called =>
        LET command == term.result.command
            c == StrStrip(StrLower(command))
            prefixed == \E i \in 1..Len(dangerous_commands) :
                           /\ Len(c) >= Len(dangerous_commands[i])
                           /\ \A k \in 1..Len(dangerous_commands[i]) :
                                 c[k] = dangerous_commands[i][k]
        IN /\ Len(dangerous_commands) = 7
           /\ term.result.kind = "refused" <=> prefixed
           /\ term.result.spawned <=> ~prefixed
           /\ command \in LongerWords => term.result.kind = "refused"
           /\ command \in NameComesLater => term.result.spawned

C28_Witness ==
    /\ term.called
    /\ term.result.command = <<"s", "u", "d", "o", " ", "r", "m">>
    /\ term.result.spawned /\ term.result.kind = "exit_code_and_output"

(***************************************************************************)
(* split_message (src/bot/utils/message_splitter.py), one iteration of its *)
(* loop at a time.  Positions are Python's: current_pos counts the         *)
(* characters before the next chunk.                                       *)
(***************************************************************************)

\* 1 + chunk.rfind(c): the place of the last c in chunk, 0 if there is
\* none; "chunk.rfind(c) > max_length * 0.5" is 2 * RFind > max_length + 2.
RFind(chunk, c) ==
    IF \E i \in 1..Len(chunk) : chunk[i] = c
    THEN CHOOSE i \in 1..Len(chunk) : chunk[i] = c /\ \A j \in (i + 1)..Len(chunk) : chunk[j] # c
    ELSE 0

\* A cut at a blank that keeps the blank in the chunk.
SpaceChunk_Keep(chunk, sp) == SubSeq(chunk, 1, sp)

\* chunk[:last_space], sp being 1 + last_space.
SpaceChunk(chunk, sp) == SubSeq(chunk, 1, sp - 1)

\* The call: a text that fits is returned as the only part.
SplitMessage ==
    /\ split.pc = "idle"
    /\ split' = IF Len(split.text) <= split.max_length
                THEN [split EXCEPT !.pc = "done", !.parts = <<split.text>>, !.cuts = <<"end">>]
                ELSE [split EXCEPT !.pc = "loop"]
    /\ UNCHANGED <<agentVars, term, tool, norm, wf, loop, threads, user_states, chat>>

\* The test of the while loop and one run of its body; cuts remembers
\* what each part was cut at.
SplitIterate ==
    /\ split.pc = "loop"
    /\ LET text == split.text
           max_length == split.max_length
           current_pos == split.current_pos
           end == IF current_pos + max_length < Len(text) THEN current_pos + max_length
                  ELSE Len(text)
           chunk == SubSeq(text, current_pos + 1, end)
           nl == RFind(chunk, "\n")
           sp == RFind(chunk, " ")
           step(part, cut, pos) ==
               [split EXCEPT !.parts = Append(split.parts, part),
                             !.cuts = Append(split.cuts, cut), !.current_pos = pos]
       IN split' = IF ~(current_pos < Len(text)) THEN [split EXCEPT !.pc = "done"]
                   ELSE IF ~(current_pos + max_length < Len(text))
                   THEN step(chunk, "end", Len(text))
                   ELSE IF 2 * nl > max_length + 2
                   THEN step(SubSeq(chunk, 1, nl), "newline", current_pos + nl)
                   ELSE IF 2 * sp > max_length + 2
                   THEN step(SpaceChunk(chunk, sp), "space", current_pos + sp)
                   ELSE step(chunk, "length", current_pos + max_length)
    /\ UNCHANGED <<agentVars, term, tool, norm, wf, loop, threads, user_states, chat>>

\* The longest text split, and the largest max_length.
MaxSplitLen == 5

\* split_message is about to be called on a text of letters, blanks and
\* line ends with a max_length of 1 or more.
InitSplit ==
    /\ AgentIdle
    /\ term = NoTerm /\ tool = NoTool /\ norm = NoTool /\ wf = NoTool /\ loop = NoLoop
    /\ threads = NoThreads /\ user_states = NoStates /\ chat = NoChat
    /\ \E text \in SeqsUpTo({"a", " ", "\n"}, MaxSplitLen), max_length \in 1..MaxSplitLen :
           split = [NoSplit EXCEPT !.text = text, !.max_length = max_length]

NextSplit == SplitMessage \/ SplitIterate

SpecSplit == InitSplit /\ [][NextSplit]_vars

\* The parts put together again, with a blank after each part that was
\* cut at a blank.
RECURSIVE Rebuilt(_, _)
Rebuilt(parts, cuts) ==
    IF parts = <<>> THEN <<>>
    ELSE parts[1] \o (IF cuts[1] = "space" THEN <<" ">> ELSE <<>>)
                  \o Rebuilt(Tail(parts), Tail(cuts))

\* C29: split_message terminates for every text and every max_length of 1
\* or more: each run of the loop body moves current_pos forward and not
\* beyond the end of the text.  For a text longer than max_length the
\* parts returned have between 1 and max_length characters each and, put
\* together in order, give the text without the one blank at each cut
\* made at a blank.
C29_SplitParts ==
    [][/\ split.pc = "loop" /\ split'.pc = "loop"
          => /\ split'.current_pos > split.current_pos
             /\ split'.current_pos <= Len(split.text)
             /\ Len(split'.parts) = Len(split.parts) + 1
       /\ split.pc = "loop" /\ split'.pc = "done"
          => /\ split.current_pos = Len(split.text)
             /\ \A i \in 1..Len(split'.parts) :
                   Len(split'.parts[i]) >= 1 /\ Len(split'.parts[i]) <= split.max_length
             /\ Rebuilt(split'.parts, split'.cuts) = split.text]_vars

\* "aa aa" split at 3: the cut is made at the blank, which is dropped.
C29_Witness ==
    /\ split.pc = "done" /\ split.max_length = 3
    /\ split.text = <<"a", "a", " ", "a", "a">>
    /\ split.parts = << <<"a", "a">>, <<"a", "a">> >>
    /\ split.cuts = <<"space", "end">>

\* The texts of the model that are keyboard buttons setting a state.
StateButtons == {<<"[Weather]">>, <<"[Crypto]">>, <<" ", "[Weather]">>}

\* C30: the pending state is looked at before the buttons: a text sent by
\* a user who is in a waiting state, the text of a keyboard button
\* included, is taken as the answer to the pending question and goes to
\* the agent inside the query of that state, and sets no new waiting
\* state; a button sets a waiting state only for a user who has none.
C30_StateBeforeButtons ==
    [][MessageStep =>
          LET u == chat'.user IN
          /\ user_states[u] # ""
             => /\ chat'.handler = "state" /\ chat'.pc = "agent"
                /\ chat'.state = user_states[u]
                /\ \E i \in 1..Len(chat'.query) :
                      SubSeq(chat'.query, i, i + Len(chat'.text) - 1) = chat'.text
                /\ Len(chat'.query) > Len(chat'.text)
                /\ user_states'[u] = ""
          /\ user_states'[u] # ""
             => /\ user_states[u] = ""
                /\ chat'.handler = "button" /\ chat'.pc = "idle"
                /\ chat'.text \in StateButtons]_vars

\* The [Crypto] button pressed by a user who was asked for a city: it is
\* the city of the weather query.
C30_Witness ==
    /\ chat.pc = "agent" /\ chat.handler = "state"
    /\ chat.state = "waiting_weather_city" /\ chat.text = <<"[Crypto]">>
    /\ chat.query = <<"What is the weather in", "[Crypto]", "?">>
    /\ user_states[chat.user] = ""

====
